---- MODULE Spec2Model ----
(***************************************************************************)
(* Model of the CBOR cross-runtime conformance harness (cbor_bytes.py):    *)
(* the Tag Leakage Verifier has_cbor_tags, the Round-Trip Orchestrator     *)
(* test_roundtrip_js, its legacy wrapper test_roundtrip and the registry   *)
(* run run_all_roundtrip_tests.                                            *)
(*                                                                         *)
(* Three kinds of tree are kept apart by the kind field k of a node:       *)
(*   js_*  a value of the foreign (JavaScript) runtime, i.e. what a        *)
(*         js_input literal evaluates to;                                  *)
(*   c_*   a CBOR data item, standing for the bytes that encode it         *)
(*         (c_bad: bytes that are no CBOR item at all);                    *)
(*   py_*  a value of the reference (Python) runtime.                      *)
(* Every node has the same four fields, so any two nodes can be compared.  *)
(***************************************************************************)
EXTENDS Integers, Sequences, FiniteSets, TLC

\* ------------------------------------------------------------- bounds
\* Longest byte buffer of a registry case.
MaxLen == 1
\* Longest registry.
MaxCases == 2
\* Deepest nesting of the value trees handed to has_cbor_tags.
MaxDepth == 2

\* ---------------------------------------------------- program constants
\* Tag 64: the typed-array (Uint8Array) wrapper around a byte string.
TagUint8Array == 64
\* Tag 258: a set, which the reference codec decodes to a set by itself.
TagSet == 258
\* The tag number of test_cbor_tag_verification's unrecognized tag.
TagCustom == 99

\* -------------------------------------------------------------- nodes
Node(k, n, b, kids) == [k |-> k, n |-> n, b |-> b, kids |-> kids]

Unset == Node("unset", 0, <<>>, <<>>)

PyInt(n) == Node("py_int", n, <<>>, <<>>)
PyBytes(b) == Node("py_bytes", 0, b, <<>>)
PyList(kids) == Node("py_list", 0, <<>>, kids)
PyTuple(kids) == Node("py_tuple", 0, <<>>, kids)
\* kids of a set: its members in enumeration order
PySet(kids) == Node("py_set", 0, <<>>, kids)
PyFrozenSet(kids) == Node("py_frozenset", 0, <<>>, kids)
\* kids of a dict: its items, each a pair node <<key, value>>, in items() order
PyPair(key, value) == Node("py_pair", 0, <<>>, <<key, value>>)
PyDict(pairs) == Node("py_dict", 0, <<>>, pairs)
\* cbor2.CBORTag(tag, value)
PyTag(tag, value) == Node("py_tag", tag, <<>>, <<value>>)
\* cbor2.CBORTag(tag, value) whose tag is not a number but a CBORTag object
PyTagOfTag(tag, value) == Node("py_tag_of_tag", 0, <<>>, <<tag, value>>)
\* float("nan")
PyNaN == Node("py_nan", 0, <<>>, <<>>)
PyBool(v) == Node("py_bool", IF v THEN 1 ELSE 0, <<>>, <<>>)
\* datetime: n is the wall-clock reading in microseconds, b is empty for a
\* naive datetime and holds the UTC offset in microseconds for an aware one
PyDatetime(wall, tzinfo) == Node("py_datetime", wall, tzinfo, <<>>)
\* date: n is the day
PyDate(day) == Node("py_date", day, <<>>, <<>>)

CUint(n) == Node("c_uint", n, <<>>, <<>>)
CBstr(b) == Node("c_bstr", 0, b, <<>>)
CArray(kids) == Node("c_array", 0, <<>>, kids)
CTag(tag, item) == Node("c_tag", tag, <<>>, <<item>>)
CBad == Node("c_bad", 0, <<>>, <<>>)
CNaN == Node("c_nan", 0, <<>>, <<>>)

JsNum(n) == Node("js_num", n, <<>>, <<>>)
JsNaN == Node("js_nan", 0, <<>>, <<>>)
JsBuffer(b) == Node("js_buffer", 0, b, <<>>)
JsUint8Array(b) == Node("js_uint8array", 0, b, <<>>)
\* new Uint8Array(buf).buffer
JsArrayBuffer(b) == Node("js_arraybuffer", 0, b, <<>>)
JsArray(kids) == Node("js_array", 0, <<>>, kids)
JsSet(kids) == Node("js_set", 0, <<>>, kids)
\* maps and objects: kids are pair nodes <<key, value>>
CPair(key, value) == Node("c_pair", 0, <<>>, <<key, value>>)
CMap(pairs) == Node("c_map", 0, <<>>, pairs)
JsPair(key, value) == Node("js_pair", 0, <<>>, <<key, value>>)
JsObject(pairs) == Node("js_object", 0, <<>>, pairs)
JsMap(pairs) == Node("js_map", 0, <<>>, pairs)

\* Concatenation of a sequence of sequences.
RECURSIVE Flatten(_)
Flatten(ss) == IF ss = <<>> THEN <<>> ELSE Head(ss) \o Flatten(Tail(ss))

\* ------------------------------------------------- Tag Leakage Verifier
\* A step of a path: [i] of a list, .key[repr] and [repr] of a dict (the
\* key itself stands for its repr), .set[i] of a set.
Step(s, i, key) == [s |-> s, i |-> i, key |-> key]

\* One finding "path: CBORTag(tag, value)".
Issue(path, obj) == [path |-> path, tag |-> obj.n, value |-> obj.kids[1]]

RECURSIVE has_cbor_tags(_, _)
\* Faulty variant of has_cbor_tags: the payload of a Tagged value is
\* scanned as well.
has_cbor_tags_Descending(obj, path) ==
    IF obj.k = "py_tag"
    THEN <<Issue(path, obj)>> \o has_cbor_tags(obj.kids[1], path)
    ELSE IF obj.k = "py_dict"
    THEN Flatten([i \in 1..Len(obj.kids) |->
            has_cbor_tags(obj.kids[i].kids[1],
                          Append(path, Step("key", 0, obj.kids[i].kids[1])))
            \o has_cbor_tags(obj.kids[i].kids[2],
                          Append(path, Step("item", 0, obj.kids[i].kids[1])))])
    ELSE IF obj.k \in {"py_list", "py_tuple"}
    THEN Flatten([i \in 1..Len(obj.kids) |->
            has_cbor_tags(obj.kids[i], Append(path, Step("idx", i - 1, Unset)))])
    ELSE IF obj.k = "py_set"
    THEN Flatten([i \in 1..Len(obj.kids) |->
            has_cbor_tags(obj.kids[i], Append(path, Step("set", i - 1, Unset)))])
    ELSE <<>>

\* has_cbor_tags(obj, path): the findings, in the order they are appended.
has_cbor_tags(obj, path) ==
    IF obj.k = "py_tag"
    THEN <<Issue(path, obj)>>
    ELSE IF obj.k = "py_dict"
    THEN Flatten([i \in 1..Len(obj.kids) |->
            has_cbor_tags(obj.kids[i].kids[1],
                          Append(path, Step("key", 0, obj.kids[i].kids[1])))
            \o has_cbor_tags(obj.kids[i].kids[2],
                          Append(path, Step("item", 0, obj.kids[i].kids[1])))])
    ELSE IF obj.k \in {"py_list", "py_tuple"}
    THEN Flatten([i \in 1..Len(obj.kids) |->
            has_cbor_tags(obj.kids[i], Append(path, Step("idx", i - 1, Unset)))])
    ELSE IF obj.k = "py_set"
    THEN Flatten([i \in 1..Len(obj.kids) |->
            has_cbor_tags(obj.kids[i], Append(path, Step("set", i - 1, Unset)))])
    ELSE <<>>

\* The default path argument.
Root == <<>>

\* ------------------------------------------------------------- codecs
\* The foreign codec's encode(jsData), as the harness documents it: a Buffer
\* becomes a plain byte string, a Uint8Array is wrapped in tag 64, a Set in
\* tag 258.
RECURSIVE JsEncode(_)
JsEncode(v) ==
    CASE v.k = "js_num" -> CUint(v.n)
      [] v.k = "js_nan" -> CNaN
      [] v.k \in {"js_buffer", "js_arraybuffer"} -> CBstr(v.b)
      [] v.k = "js_uint8array" -> CTag(TagUint8Array, CBstr(v.b))
      [] v.k = "js_array" -> CArray([i \in 1..Len(v.kids) |-> JsEncode(v.kids[i])])
      [] v.k = "js_set" ->
            CTag(TagSet, CArray([i \in 1..Len(v.kids) |-> JsEncode(v.kids[i])]))
      [] v.k \in {"js_object", "js_map"} ->
            CMap([i \in 1..Len(v.kids) |->
                    CPair(JsEncode(v.kids[i].kids[1]), JsEncode(v.kids[i].kids[2]))])
      [] OTHER -> CBad

\* cbor2.loads raises on bytes that are no CBOR item.
RECURSIVE LoadsRaises(_)
LoadsRaises(item) ==
    \/ item.k \notin {"c_uint", "c_nan", "c_bstr", "c_array", "c_map", "c_pair", "c_tag"}
    \/ \E i \in 1..Len(item.kids) : LoadsRaises(item.kids[i])

\* cbor2.loads(data) with no tag_hook: tag 258 is decoded to a set, every
\* other tag (tag 64 too) stays a CBORTag. Inside a set or a map key the
\* decoder is in immutable mode: arrays become tuples, sets frozensets.
RECURSIVE Cbor2Loads(_, _)
Cbor2Loads(item, immutable) ==
    CASE item.k = "c_uint" -> PyInt(item.n)
      [] item.k = "c_nan" -> PyNaN
      [] item.k = "c_bstr" -> PyBytes(item.b)
      [] item.k = "c_array" ->
            LET kids == [i \in 1..Len(item.kids) |-> Cbor2Loads(item.kids[i], immutable)]
            IN IF immutable THEN PyTuple(kids) ELSE PyList(kids)
      [] item.k = "c_map" ->
            PyDict([i \in 1..Len(item.kids) |->
                      PyPair(Cbor2Loads(item.kids[i].kids[1], TRUE),
                             Cbor2Loads(item.kids[i].kids[2], immutable))])
      [] item.k = "c_tag" /\ item.n = TagSet ->
            LET arr == item.kids[1]
                kids == [i \in 1..Len(arr.kids) |-> Cbor2Loads(arr.kids[i], TRUE)]
            IN IF immutable THEN PyFrozenSet(kids) ELSE PySet(kids)
      [] item.k = "c_tag" /\ item.n # TagSet ->
            PyTag(item.n, Cbor2Loads(item.kids[1], immutable))
      [] OTHER -> Unset

\* cbor2.dumps(obj).
RECURSIVE Cbor2Dumps(_)
Cbor2Dumps(obj) ==
    CASE obj.k = "py_int" -> CUint(obj.n)
      [] obj.k = "py_nan" -> CNaN
      [] obj.k = "py_bytes" -> CBstr(obj.b)
      [] obj.k \in {"py_list", "py_tuple"} ->
            CArray([i \in 1..Len(obj.kids) |-> Cbor2Dumps(obj.kids[i])])
      [] obj.k \in {"py_set", "py_frozenset"} ->
            CTag(TagSet, CArray([i \in 1..Len(obj.kids) |-> Cbor2Dumps(obj.kids[i])]))
      [] obj.k = "py_dict" ->
            CMap([i \in 1..Len(obj.kids) |->
                    CPair(Cbor2Dumps(obj.kids[i].kids[1]), Cbor2Dumps(obj.kids[i].kids[2]))])
      [] obj.k = "py_tag" -> CTag(obj.n, Cbor2Dumps(obj.kids[1]))
      [] OTHER -> CBad

\* Python's == on the decoded and the declared value: lists and tuples in
\* order, sets and dicts regardless of order, a set equal to a frozenset
\* with the same members, a CBORTag by tag and value. A NaN is equal to no
\* float, another NaN included (the two are never the same object). Two
\* aware datetimes are equal when they denote one instant, two naive ones
\* when their readings are the same, a naive and an aware one never.
RECURSIVE PyEq(_, _)
PyEq(a, b) ==
    LET setlike == {"py_set", "py_frozenset"}
        sub(x, y) == \A i \in 1..Len(x.kids) : \E j \in 1..Len(y.kids) :
                        PyEq(x.kids[i], y.kids[j])
    IN IF a.k \in setlike /\ b.k \in setlike THEN sub(a, b) /\ sub(b, a)
       ELSE IF a.k # b.k THEN FALSE
       ELSE IF a.k = "py_nan" THEN FALSE
       ELSE IF a.k = "py_datetime"
       THEN IF a.b = <<>> \/ b.b = <<>> THEN a.b = b.b /\ a.n = b.n
            ELSE a.n - a.b[1] = b.n - b.b[1]
       ELSE IF a.k = "py_dict" THEN Len(a.kids) = Len(b.kids) /\ sub(a, b) /\ sub(b, a)
       ELSE /\ a.n = b.n
            /\ a.b = b.b
            /\ Len(a.kids) = Len(b.kids)
            /\ \A i \in 1..Len(a.kids) : PyEq(a.kids[i], b.kids[i])

\* ------------------------------------------------ comparison functions
\* Faulty variant of compare_sets: the members are compared in enumeration
\* order.
compare_sets_InOrder(original, result) == original = result

\* compare_sets (and compare_dicts): return original == result
compare_sets(original, result) == PyEq(original, result)

\* datetime.replace(tzinfo=None): the same reading with no time zone.
ReplaceTzinfoNone(d) == PyDatetime(d.n, <<>>)

\* (a - b).total_seconds(), in microseconds, of two naive or two aware
\* datetimes: the difference of the readings, or of the instants.
TotalSeconds(a, b) ==
    IF a.b = <<>> THEN a.n - b.n ELSE (a.n - a.b[1]) - (b.n - b.b[1])

Abs(x) == IF x < 0 THEN 0 - x ELSE x

\* The 1.0 of diff < 1.0, in microseconds.
OneSecond == 1000000

\* compare_dates: of two datetimes of which one is naive, the aware one has
\* its tzinfo replaced by None; then diff < 1.0. Anything else: ==.
compare_dates(original, result) ==
    IF original.k = "py_datetime" /\ result.k = "py_datetime"
    THEN LET r == IF original.b = <<>> /\ result.b # <<>>
                  THEN ReplaceTzinfoNone(result) ELSE result
             o == IF original.b # <<>> /\ result.b = <<>>
                  THEN ReplaceTzinfoNone(original) ELSE original
         IN Abs(TotalSeconds(o, r)) < OneSecond
    ELSE PyEq(original, result)

\* ------------------------------------------------- python_to_js_code
\* Whether python_to_js_code(data) raises TypeError: data, or a value inside
\* it, is of none of the types the function converts.
RECURSIVE PyToJsRaises(_)
PyToJsRaises(data) ==
    \/ data.k \notin {"py_int", "py_bytes", "py_list", "py_set", "py_dict", "py_pair"}
    \/ \E i \in 1..Len(data.kids) : PyToJsRaises(data.kids[i])

\* The literal python_to_js_code(data) writes, as the foreign value it
\* denotes: bytes as Buffer.from([...]), a set as new Set([...]), a dict
\* whose keys are not all strings as new Map([...]).
RECURSIVE python_to_js_code(_)
python_to_js_code(data) ==
    CASE data.k = "py_int" -> JsNum(data.n)
      [] data.k = "py_bytes" -> JsBuffer(data.b)
      [] data.k = "py_list" ->
            JsArray([i \in 1..Len(data.kids) |-> python_to_js_code(data.kids[i])])
      [] data.k = "py_set" ->
            JsSet([i \in 1..Len(data.kids) |-> python_to_js_code(data.kids[i])])
      [] data.k = "py_dict" ->
            JsMap([i \in 1..Len(data.kids) |->
                     JsPair(python_to_js_code(data.kids[i].kids[1]),
                            python_to_js_code(data.kids[i].kids[2]))])
      [] OTHER -> Unset

\* -------------------------------------------------- foreign runtime
\* What one run of the foreign process hands back: its exit status, its
\* output bytes and the bytes of its diagnostic channel.
Response(rc, out, err) == [rc |-> rc, out |-> out, err |-> err]

\* Bytes that are not the UTF-8 encoding of any text.
NotUtf8 == "not UTF-8"

\* bytes.decode() raises UnicodeDecodeError on such bytes.
DecodeRaises(bytes) == bytes = NotUtf8

\* The runs an encode request for js_code can have: the encoding of the
\* literal, a nonzero exit, or a zero exit with output that is no CBOR item.
EncodeResponses(js_code) ==
    {Response(0, JsEncode(js_code), "Encoding JS data"),
     Response(0, JsEncode(js_code), NotUtf8),
     Response(1, CBad, "Error"),
     Response(0, CBad, "")}

\* The output of a decode-and-compare run is a sequence of words and white
\* space; console.log ends its line with a newline.
WhiteSpace == {" ", "\n"}

\* The runs a decode-and-compare request can have.
DecodeResponses ==
    {Response(0, <<"values_match", "\n">>, "JS decoded"),
     Response(0, <<"values_match", "\n">>, ""),
     Response(0, <<"values_match", "\n">>, NotUtf8),
     Response(0, <<"values_differ", "\n">>, "JS decoded"),
     Response(0, <<"decode_success", "\n">>, ""),
     Response(0, <<>>, "JS decoded"),
     Response(1, <<"values_match", "\n">>, "Decode error"),
     Response(1, <<>>, "Decode error")}

\* No run of the foreign process yet.
NoEncode == Response(-1, Unset, "")
NoDecode == Response(-1, <<>>, "")

\* The outcome of a call: a returned value, or an exception.
Returned(value) == [raised |-> FALSE, value |-> value]
Raised == [raised |-> TRUE, value |-> Unset]

\* str.strip()
RECURSIVE Strip(_)
Strip(text) ==
    IF text = <<>> THEN <<>>
    ELSE IF Head(text) \in WhiteSpace THEN Strip(Tail(text))
    ELSE IF text[Len(text)] \in WhiteSpace THEN Strip(SubSeq(text, 1, Len(text) - 1))
    ELSE text

\* encode_with_node_cbor_x and encode_with_node_cbor_x_uint8array, given the
\* run of the foreign process.
encode_with_node_cbor_x(proc) ==
    IF proc.rc # 0 THEN Raised ELSE Returned(proc.out)

\* encode_js_code_with_cbor_x, given the run of the foreign process:
\* RuntimeError on a nonzero exit; if err: print(err.decode().strip()).
encode_js_code_with_cbor_x(proc) ==
    IF proc.rc # 0 THEN Raised
    ELSE IF proc.err # "" /\ DecodeRaises(proc.err) THEN Raised
    ELSE Returned(proc.out)

\* Faulty variant of decode_and_verify_js_roundtrip: the exit status is not
\* looked at.
decode_and_verify_js_roundtrip_AnyExit(proc) ==
    IF proc.err # "" /\ DecodeRaises(proc.err) THEN Raised
    ELSE IF Strip(proc.out) = <<"values_match">> THEN Returned("True")
    ELSE IF Strip(proc.out) = <<"values_differ">> THEN Returned("False")
    ELSE Raised

\* decode_and_verify_js_roundtrip, given the run of the foreign process;
\* the value returned is "True" or "False".
decode_and_verify_js_roundtrip(proc) ==
    IF proc.rc # 0 THEN Raised
    ELSE IF proc.err # "" /\ DecodeRaises(proc.err) THEN Raised
    ELSE IF Strip(proc.out) = <<"values_match">> THEN Returned("True")
    ELSE IF Strip(proc.out) = <<"values_differ">> THEN Returned("False")
    ELSE Raised

\* ---------------------------------------------------------- tag_hook
\* The decoder of the installed cbor2: CBORTag(tag, value) either raises
\* TypeError when tag is no integer, or takes any object as the tag.
Decoders == {[tag_must_be_int |-> TRUE], [tag_must_be_int |-> FALSE]}

\* Faulty variant of tag_hook: the payload of tag 64 is returned unchecked.
tag_hook_Unchecked(decoder, tag) ==
    IF tag.n = TagUint8Array THEN Returned(tag.kids[1])
    ELSE IF decoder.tag_must_be_int THEN Raised
    ELSE Returned(PyTagOfTag(tag, tag.kids[1]))

\* tag_hook(decoder, tag): the bytes under tag 64, ValueError when they are
\* no bytes; for any other tag, cbor2.CBORTag(tag, tag.value), whose first
\* argument is the CBORTag object and not its number.
tag_hook(decoder, tag) ==
    IF tag.n = TagUint8Array
    THEN IF tag.kids[1].k # "py_bytes" THEN Raised ELSE Returned(tag.kids[1])
    ELSE IF decoder.tag_must_be_int THEN Raised
    ELSE Returned(PyTagOfTag(tag, tag.kids[1]))

\* cbor2.loads(data, tag_hook=tag_hook) on a well-formed item: as
\* Cbor2Loads, but a tag with no decoder of its own is handed to tag_hook.
RECURSIVE Cbor2LoadsHook(_, _, _)
Cbor2LoadsHook(decoder, item, immutable) ==
    LET sub(imm) == [i \in 1..Len(item.kids) |-> Cbor2LoadsHook(decoder, item.kids[i], imm)]
        failed(outs) == \E i \in 1..Len(outs) : outs[i].raised
        values(outs) == [i \in 1..Len(outs) |-> outs[i].value]
    IN CASE item.k = "c_uint" -> Returned(PyInt(item.n))
         [] item.k = "c_nan" -> Returned(PyNaN)
         [] item.k = "c_bstr" -> Returned(PyBytes(item.b))
         [] item.k = "c_array" ->
               IF failed(sub(immutable)) THEN Raised
               ELSE IF immutable THEN Returned(PyTuple(values(sub(immutable))))
               ELSE Returned(PyList(values(sub(immutable))))
         [] item.k = "c_pair" ->
               LET key == Cbor2LoadsHook(decoder, item.kids[1], TRUE)
                   value == Cbor2LoadsHook(decoder, item.kids[2], immutable)
               IN IF key.raised \/ value.raised THEN Raised
                  ELSE Returned(PyPair(key.value, value.value))
         [] item.k = "c_map" ->
               IF failed(sub(immutable)) THEN Raised
               ELSE Returned(PyDict(values(sub(immutable))))
         [] item.k = "c_tag" /\ item.n = TagSet ->
               LET members == Cbor2LoadsHook(decoder, item.kids[1], TRUE)
               IN IF members.raised THEN Raised
                  ELSE IF immutable THEN Returned(PyFrozenSet(members.value.kids))
                  ELSE Returned(PySet(members.value.kids))
         [] item.k = "c_tag" /\ item.n # TagSet ->
               LET payload == Cbor2LoadsHook(decoder, item.kids[1], immutable)
               IN IF payload.raised THEN Raised
                  ELSE tag_hook(decoder, PyTag(item.n, payload.value))
         [] OTHER -> Raised

\* cbor_loads_with_tag64_support(data)
cbor_loads_with_tag64_support(decoder, data) ==
    IF LoadsRaises(data) THEN Raised ELSE Cbor2LoadsHook(decoder, data, FALSE)

\* ------------------------------------------------------- test cases
\* A registry entry (name, js_input, python_expected[, compare_fn]);
\* compare_fn is "None" when the entry has three elements.
Case(js_input, python_intermediate, compare_fn) ==
    [js_input |-> js_input, python_intermediate |-> python_intermediate,
     compare_fn |-> compare_fn]

NoCase == Case(Unset, Unset, "None")

\* compare_fn(original, result), for the comparison functions by name.
ApplyCompare(compare_fn, original, result) ==
    IF compare_fn = "compare_dates" THEN compare_dates(original, result)
    ELSE IF compare_fn = "lambda_is_nan" THEN result.k = "py_nan"
    ELSE compare_sets(original, result)

RECURSIVE ByteStrings(_)
ByteStrings(n) ==
    IF n = 0 THEN {<<>>}
    ELSE ByteStrings(n - 1) \cup {Append(b, 104) : b \in ByteStrings(n - 1)}

\* Byte buffer cases as the registry writes them, in both foreign forms.
BufferCases ==
    UNION {{Case(JsBuffer(b), PyBytes(b), "None"),
            Case(JsUint8Array(b), PyBytes(b), "None")} : b \in ByteStrings(MaxLen)}

\* Other registry cases, and cases whose declared expected value is not the
\* value the literal decodes to.
OtherCases ==
    {Case(JsNum(42), PyInt(42), "None"),
     Case(JsNum(42), PyInt(7), "None"),
     Case(JsArray(<<JsNum(1), JsNum(2)>>), PyList(<<PyInt(1), PyInt(2)>>), "None"),
     Case(JsSet(<<JsNum(1), JsNum(2)>>), PySet(<<PyInt(2), PyInt(1)>>), "compare_sets"),
     Case(JsSet(<<JsNum(1), JsNum(2)>>), PySet(<<PyInt(1)>>), "compare_sets"),
     Case(JsNaN, PyNaN, "None"),
     Case(JsNaN, PyNaN, "lambda_is_nan")}

Cases == BufferCases \cup OtherCases

RECURSIVE SeqsUpTo(_, _)
SeqsUpTo(S, n) ==
    IF n = 0 THEN {<<>>}
    ELSE LET shorter == SeqsUpTo(S, n - 1)
         IN shorter \cup {Append(q, x) : q \in shorter, x \in S}

\* The registries a run can be given: the suites hold at least one case.
Registries == SeqsUpTo(Cases, MaxCases) \ {<<>>}

\* ------------------------------------------------ release.py: data
\* A version major.minor.patch, or major.minor.patch-dev.n when pre is <<n>>.
Version(major, minor, patch, pre) ==
    [major |-> major, minor |-> minor, patch |-> patch, pre |-> pre]

\* The version npm version <release> writes in place of v.
NpmVersion(v, release) ==
    CASE release = "major" ->
            IF v.minor # 0 \/ v.patch # 0 \/ v.pre = <<>>
            THEN Version(v.major + 1, 0, 0, <<>>) ELSE Version(v.major, 0, 0, <<>>)
      [] release = "minor" ->
            IF v.patch # 0 \/ v.pre = <<>>
            THEN Version(v.major, v.minor + 1, 0, <<>>)
            ELSE Version(v.major, v.minor, 0, <<>>)
      [] release = "patch" ->
            IF v.pre = <<>> THEN Version(v.major, v.minor, v.patch + 1, <<>>)
            ELSE Version(v.major, v.minor, v.patch, <<>>)
      [] release = "premajor" -> Version(v.major + 1, 0, 0, <<0>>)
      [] release = "preminor" -> Version(v.major, v.minor + 1, 0, <<0>>)
      [] release = "prepatch" -> Version(v.major, v.minor, v.patch + 1, <<0>>)
      [] release = "prerelease" ->
            IF v.pre = <<>> THEN Version(v.major, v.minor, v.patch + 1, <<0>>)
            ELSE Version(v.major, v.minor, v.patch, <<v.pre[1] + 1>>)
      [] OTHER -> v

\* A line of CHANGELOG.md: "## Unreleased", the header "## modal-js/v...,
\* modal-go/v..." of a release (v its version), "- ..." (an item), "- No
\* unreleased changes", "No unreleased changes." or an empty line.
Line(k, v) == [k |-> k, v |-> v]
Text(k) == Line(k, Version(0, 0, 0, <<>>))

\* The lines under "## Unreleased" that start with "-".
RECURSIVE ItemsInUnreleased(_, _, _)
ItemsInUnreleased(lines, i, inside) ==
    IF i > Len(lines) THEN <<>>
    ELSE IF ~inside
    THEN ItemsInUnreleased(lines, i + 1, lines[i].k = "unreleased")
    ELSE IF lines[i].k \in {"unreleased", "release"}
    THEN ItemsInUnreleased(lines, i, FALSE)
    ELSE IF lines[i].k \in {"item", "no_changes_item"}
    THEN <<lines[i]>> \o ItemsInUnreleased(lines, i + 1, TRUE)
    ELSE ItemsInUnreleased(lines, i + 1, TRUE)

\* Whether check_unreleased_has_items(changelog_content) raises.
check_unreleased_has_items(changelog_content) ==
    LET items_in_unreleased == ItemsInUnreleased(changelog_content, 1, FALSE)
    IN \/ \E i \in 1..Len(items_in_unreleased) :
              items_in_unreleased[i].k = "no_changes_item"
       \/ items_in_unreleased = <<>>

\* changelog_content.replace("## Unreleased", new_header)
ReplaceUnreleased(changelog_content, new_version) ==
    Flatten([i \in 1..Len(changelog_content) |->
        IF changelog_content[i].k = "unreleased"
        THEN <<Text("unreleased"), Text("blank"), Text("no_changes"), Text("blank"),
               Line("release", new_version)>>
        ELSE <<changelog_content[i]>>])

\* The three files of the release: a tree gives the content of each.
Tree(package_json, package_lock, changelog) ==
    [package_json |-> package_json, package_lock |-> package_lock, changelog |-> changelog]

DevFiles == {"package_json", "package_lock"}
StableFiles == {"package_json", "package_lock", "changelog"}

Repo(worktree, index, commits) ==
    [worktree |-> worktree, index |-> index, commits |-> commits]

HeadTree(r) == r.commits[Len(r.commits)].tree

\* git status --porcelain prints nothing.
GitClean(r) == r.worktree = r.index /\ r.index = HeadTree(r)

\* npm version <release> --no-git-tag-version, in modal-js
NpmVersionRun(r, release) ==
    [r EXCEPT !.worktree.package_json = NpmVersion(@, release),
              !.worktree.package_lock = NpmVersion(@, release)]

\* git add <files>
GitAdd(r, files) ==
    [r EXCEPT !.index = [f \in DOMAIN r.index |->
                            IF f \in files THEN r.worktree[f] ELSE r.index[f]]]

\* git commit -m <message>
GitCommit(r, message) ==
    [r EXCEPT !.commits = Append(@, [message |-> message, tree |-> r.index])]

\* git reset HEAD
GitResetHead(r) == [r EXCEPT !.index = HeadTree(r)]

\* git restore -- <files>
GitRestore(r, files) ==
    [r EXCEPT !.worktree = [f \in DOMAIN r.worktree |->
                               IF f \in files THEN r.index[f] ELSE r.worktree[f]]]

\* Faulty variant of DryRunStable: the staged files are not unstaged first.
DryRunStable_NoReset(r) == GitRestore(r, StableFiles)

\* The dry run of the stable path: git reset HEAD, git restore -- <files>.
DryRunStable(r) == GitRestore(GitResetHead(r), StableFiles)

\* The dry run of the dev path: git restore -- <files>.
DryRunDev(r) == GitRestore(r, DevFiles)

\* -------------------------------------------------------------- state
VARIABLES
    registry,   \* the test cases of the run, in order (read-only)
    idx,        \* 1-based position of the run in the registry
    all_results,\* the success flag of every case evaluated so far
    printed,    \* the closing message printed for every case evaluated so far
    summary,    \* "none", then run_all_roundtrip_tests' return value
    pc,         \* where control is: idle, S0..S4, ret, raised, summary, ...
    cur,        \* the arguments of the current test_roundtrip_js call
    js_encoded, \* B1
    python_decoded, \* V1
    python_encoded, \* B2
    verify_args,\* the arguments S4 handed to decode_and_verify_js_roundtrip
    trace,      \* the stages executed for the current case, with their success
    retval,     \* "none", then the value the current call returned
    outcome,    \* "none", then the closing message the current call printed
    legacy_args,\* the arguments of a legacy test_roundtrip call
    obj,        \* the argument of a has_cbor_tags call
    issues,     \* the list that call returned
    exit_code,  \* <<>>, then the exit code of the process
    enc_proc,   \* the run of the foreign process S0 made for the current case
    dec_proc,   \* the run of the foreign process S4 made for the current case
    call,       \* a call of a comparison function or of tag_hook
    call_result,\* the outcome of that call
    rel_args,   \* the parsed command line of release.py
    repo,       \* the git repository: working tree, index and commits
    repo_before \* the repository as the release command found it

vars == <<registry, idx, all_results, printed, summary, pc, cur, js_encoded, python_decoded,
          python_encoded, verify_args, trace, retval, outcome, legacy_args, obj, issues,
          exit_code, enc_proc, dec_proc, call, call_result,
          rel_args, repo, repo_before>>

runVars == <<registry, idx, all_results, printed, summary, exit_code>>
scanVars == <<obj, issues>>
procVars == <<enc_proc, dec_proc>>
fnVars == <<call, call_result>>
relVars == <<rel_args, repo, repo_before>>

NoArgs == [cbor_data |-> Unset, original_js_code |-> Unset]
NoCall == [fn |-> "none", decoder |-> [tag_must_be_int |-> TRUE], args |-> <<>>]

\* release.py is not run.
NoRepo ==
    Repo(Tree(Version(0, 0, 0, <<>>), Version(0, 0, 0, <<>>), <<>>),
         Tree(Version(0, 0, 0, <<>>), Version(0, 0, 0, <<>>), <<>>), <<>>)
NoRelease ==
    /\ rel_args = [update |-> "none", dev |-> FALSE, dry_run |-> FALSE]
    /\ repo = NoRepo
    /\ repo_before = NoRepo
NoLegacyArgs == [original_data |-> Unset, compare_fn |-> "None"]

\* A stage that was executed and how it ended: "ok", "fail" (it returned
\* and the case failed on its result) or "raise" (it raised an exception).
Executed(stage, result) == [stage |-> stage, result |-> result]

\* The state of a test_roundtrip_js call at its first statement.
CallStarts(case) ==
    /\ cur' = case
    /\ js_encoded' = Unset
    /\ python_decoded' = Unset
    /\ python_encoded' = Unset
    /\ verify_args' = NoArgs
    /\ trace' = <<>>
    /\ retval' = "none"
    /\ outcome' = "none"
    /\ enc_proc' = NoEncode
    /\ dec_proc' = NoDecode

\* ---------------------------------------- test_roundtrip_js, by stage
\* Where a return statement takes the call: its value and closing message.
Return(value, message) == [pc |-> "ret", retval |-> value, outcome |-> message]
Continue(stage) == [pc |-> stage, retval |-> "none", outcome |-> "none"]

\* Faulty variants of OnException: the failed stage is tried again; the
\* exception leaves test_roundtrip_js.
OnException_Retry(stage) == Continue(stage)
OnException_Propagate(stage) == [pc |-> "raised", retval |-> "none", outcome |-> "none"]

\* except Exception: print the exception, return False.
OnException(stage) == Return("False", "exception")

\* Faulty variants of OnTagScan: the findings are ignored; the findings end
\* the case with the exception message.
OnTagScan_Ignore(cbor_tag_issues) == Continue("S2")
OnTagScan_AsException(cbor_tag_issues) ==
    IF cbor_tag_issues # <<>> THEN Return("False", "exception") ELSE Continue("S2")

\* if cbor_tag_issues: ... return False
OnTagScan(cbor_tag_issues) ==
    IF cbor_tag_issues # <<>> THEN Return("False", "cbor_tags") ELSE Continue("S2")

\* Faulty variant of IntermediateChecked: the comparison is made whatever
\* compare_fn is.
IntermediateChecked_Always(compare_fn) == TRUE

\* compare_fn is None and python_decoded != python_intermediate: whether the
\* comparison of the and's right-hand side is evaluated at all.
IntermediateChecked(compare_fn) == compare_fn = "None"

\* Faulty variant of ReencodeArg: the declared expected value is encoded.
ReencodeArg_Expected(decoded, intermediate) == intermediate

\* python_encoded = cbor2.dumps(python_decoded)
ReencodeArg(decoded, intermediate) == decoded

\* decode_and_verify_js_roundtrip(python_encoded, js_input)
VerifyArgs(encoded, case) == [cbor_data |-> encoded, original_js_code |-> case.js_input]

\* Faulty variant of OnVerify: a flag shared by the cases makes a case fail
\* once an earlier case has failed.
OnVerify_SharedFlag(js_matches_original) ==
    IF js_matches_original = "True" /\ \A i \in 1..Len(all_results) : all_results[i]
    THEN Return("True", "successful")
    ELSE Return("False", "js_mismatch")

\* if not js_matches_original: ... return False / ... return True
OnVerify(js_matches_original) ==
    IF js_matches_original = "True" THEN Return("True", "successful")
    ELSE Return("False", "js_mismatch")

Goto(target) ==
    /\ pc' = target.pc
    /\ retval' = target.retval
    /\ outcome' = target.outcome

\* Step 1: js_encoded = encode_js_code_with_cbor_x(js_input)
EncodeForeign ==
    /\ pc = "S0"
    /\ \E proc \in EncodeResponses(cur.js_input) :
          LET r == encode_js_code_with_cbor_x(proc)
          IN /\ trace' = Append(trace, Executed("S0", IF r.raised THEN "raise" ELSE "ok"))
             /\ enc_proc' = proc
             /\ IF r.raised
                THEN /\ Goto(OnException("S0"))
                     /\ UNCHANGED js_encoded
                ELSE /\ Goto(Continue("S1"))
                     /\ js_encoded' = r.value
    /\ UNCHANGED <<runVars, scanVars, fnVars, relVars, dec_proc, cur, python_decoded, python_encoded,
                   verify_args, legacy_args>>

\* Step 2: python_decoded = cbor2.loads(js_encoded), then the tag scan.
DecodeReference ==
    /\ pc = "S1"
    /\ IF LoadsRaises(js_encoded)
       THEN /\ trace' = Append(trace, Executed("S1", "raise"))
            /\ Goto(OnException("S1"))
            /\ UNCHANGED python_decoded
       ELSE LET decoded == Cbor2Loads(js_encoded, FALSE)
                cbor_tag_issues == has_cbor_tags(decoded, Root)
            IN /\ python_decoded' = decoded
               /\ trace' = Append(trace, Executed("S1", IF cbor_tag_issues = <<>> THEN "ok"
                                                                ELSE "fail"))
               /\ Goto(OnTagScan(cbor_tag_issues))
    /\ UNCHANGED <<runVars, scanVars, fnVars, relVars, procVars, cur, js_encoded, python_encoded,
                   verify_args, legacy_args>>

\* The intermediate check, or its skip when the case has a compare_fn.
CheckIntermediate ==
    /\ pc = "S2"
    /\ IF IntermediateChecked(cur.compare_fn)
       THEN LET equal == PyEq(python_decoded, cur.python_intermediate)
            IN /\ trace' = Append(trace, Executed("S2", IF equal THEN "ok" ELSE "fail"))
               /\ IF equal THEN Goto(Continue("S3"))
                           ELSE Goto(Return("False", "intermediate_mismatch"))
       ELSE /\ trace' = trace
            /\ Goto(Continue("S3"))
    /\ UNCHANGED <<runVars, scanVars, fnVars, relVars, procVars, cur, js_encoded, python_decoded, python_encoded,
                   verify_args, legacy_args>>

\* Step 3: python_encoded = cbor2.dumps(python_decoded)
ReencodeReference ==
    /\ pc = "S3"
    /\ python_encoded' = Cbor2Dumps(ReencodeArg(python_decoded, cur.python_intermediate))
    /\ trace' = Append(trace, Executed("S3", "ok"))
    /\ Goto(Continue("S4"))
    /\ UNCHANGED <<runVars, scanVars, fnVars, relVars, procVars, cur, js_encoded, python_decoded,
                   verify_args, legacy_args>>

\* Step 4: js_matches_original = decode_and_verify_js_roundtrip(...)
DecodeForeign ==
    /\ pc = "S4"
    /\ verify_args' = VerifyArgs(python_encoded, cur)
    /\ \E proc \in DecodeResponses :
          LET r == decode_and_verify_js_roundtrip(proc)
          IN /\ trace' = Append(trace, Executed("S4", IF r.raised THEN "raise"
                                                   ELSE IF r.value = "True" THEN "ok"
                                                   ELSE "fail"))
             /\ dec_proc' = proc
             /\ IF r.raised THEN Goto(OnException("S4")) ELSE Goto(OnVerify(r.value))
    /\ UNCHANGED <<runVars, scanVars, fnVars, relVars, enc_proc, cur, js_encoded, python_decoded, python_encoded,
                   legacy_args>>

\* --------------------------------------------- run_all_roundtrip_tests
\* The suites' loops: the next case of the registry is handed to
\* test_roundtrip_js.
StartCase ==
    /\ pc = "idle"
    /\ idx <= Len(registry)
    /\ CallStarts(Case(registry[idx].js_input, registry[idx].python_intermediate,
                       registry[idx].compare_fn))
    /\ pc' = "S0"
    /\ UNCHANGED <<runVars, scanVars, fnVars, relVars, legacy_args>>

\* results.append((name, success))
Collect ==
    /\ pc = "ret"
    /\ registry # <<>>
    /\ all_results' = Append(all_results, retval = "True")
    /\ printed' = Append(printed, outcome)
    /\ idx' = idx + 1
    /\ pc' = "idle"
    /\ UNCHANGED <<registry, summary, exit_code, scanVars, fnVars, relVars, procVars, cur, js_encoded, python_decoded,
                   python_encoded, verify_args, trace, retval, outcome, legacy_args>>

\* passed = sum(...); total = len(all_results); return passed == total
Summarize ==
    /\ pc = "idle"
    /\ idx > Len(registry)
    /\ LET passed == Cardinality({i \in 1..Len(all_results) : all_results[i]})
           total == Len(all_results)
       IN summary' = IF passed = total THEN "True" ELSE "False"
    /\ pc' = "summary"
    /\ UNCHANGED <<registry, idx, all_results, printed, exit_code, scanVars, fnVars, relVars, procVars, cur, js_encoded, python_decoded,
                   python_encoded, verify_args, trace, retval, outcome, legacy_args>>

\* ------------------------------------------------------------ __main__
\* original = b"hello world \x00\xff"
Original == <<104, 0, 255>>

\* An exception that reaches the top level of the script: traceback, and the
\* interpreter exits with status 1.
Traceback ==
    /\ pc' = "traceback"
    /\ exit_code' = <<1>>

\* test_cbor_x_encode_and_python_decode(): encode through an ArrayBuffer,
\* cbor2.loads, and the two assertions.
test_cbor_x_encode_and_python_decode ==
    /\ pc = "main"
    /\ \E proc \in EncodeResponses(JsArrayBuffer(Original)) :
          LET cbor_bytes == encode_with_node_cbor_x(proc)
          IN IF cbor_bytes.raised \/ LoadsRaises(cbor_bytes.value)
             THEN Traceback
             ELSE LET decoded == Cbor2Loads(cbor_bytes.value, FALSE)
                  IN IF decoded.k = "py_bytes" /\ PyEq(decoded, PyBytes(Original))
                     THEN pc' = "main_tag64" /\ UNCHANGED exit_code
                     ELSE Traceback
    /\ UNCHANGED <<registry, idx, all_results, printed, summary, scanVars, fnVars, relVars, procVars,
                   cur, js_encoded, python_decoded, python_encoded, verify_args, trace,
                   retval, outcome, legacy_args>>

\* test_uint8array_with_tag64_support(): encode through a Uint8Array,
\* cbor_loads_with_tag64_support, and the two assertions.
test_uint8array_with_tag64_support ==
    /\ pc = "main_tag64"
    /\ \E proc \in EncodeResponses(JsUint8Array(Original)), decoder \in Decoders :
          LET cbor_bytes == encode_with_node_cbor_x(proc)
              decoded == cbor_loads_with_tag64_support(decoder, cbor_bytes.value)
          IN IF cbor_bytes.raised \/ decoded.raised
             THEN Traceback
             ELSE IF decoded.value.k = "py_bytes" /\ PyEq(decoded.value, PyBytes(Original))
             THEN pc' = "idle" /\ UNCHANGED exit_code
             ELSE Traceback
    /\ UNCHANGED <<registry, idx, all_results, printed, summary, scanVars, fnVars, relVars, procVars,
                   cur, js_encoded, python_decoded, python_encoded, verify_args, trace,
                   retval, outcome, legacy_args>>

\* Faulty variant of ExitCode: the script ends normally whatever the run
\* returned.
ExitCode_AlwaysZero(success) == 0

\* if success: ... else: ... exit(1)
ExitCode(success) == IF success = "True" THEN 0 ELSE 1

\* success = run_all_roundtrip_tests() has returned: the script ends.
Exit ==
    /\ pc = "summary"
    /\ exit_code' = <<ExitCode(summary)>>
    /\ pc' = "exit"
    /\ UNCHANGED <<registry, idx, all_results, printed, summary, scanVars, fnVars, relVars, procVars,
                   cur, js_encoded, python_decoded, python_encoded, verify_args, trace,
                   retval, outcome, legacy_args>>

Init ==
    /\ registry \in Registries
    /\ idx = 1
    /\ all_results = <<>>
    /\ printed = <<>>
    /\ summary = "none"
    /\ pc = "main"
    /\ cur = NoCase
    /\ js_encoded = Unset
    /\ python_decoded = Unset
    /\ python_encoded = Unset
    /\ verify_args = NoArgs
    /\ trace = <<>>
    /\ retval = "none"
    /\ outcome = "none"
    /\ legacy_args = NoLegacyArgs
    /\ obj = Unset
    /\ issues = <<>>
    /\ exit_code = <<>>
    /\ enc_proc = NoEncode
    /\ dec_proc = NoDecode
    /\ call = NoCall
    /\ call_result = Raised
    /\ NoRelease

Next ==
    \/ test_cbor_x_encode_and_python_decode
    \/ test_uint8array_with_tag64_support
    \/ StartCase
    \/ EncodeForeign
    \/ DecodeReference
    \/ CheckIntermediate
    \/ ReencodeReference
    \/ DecodeForeign
    \/ Collect
    \/ Summarize
    \/ Exit

Spec == Init /\ [][Next]_vars

\* ------------------------------------------------------ test_roundtrip
\* The values a caller may hand to the legacy test_roundtrip.
LegacyData ==
    {PyInt(42), PyList(<<PyInt(1), PyInt(2)>>), PyList(<<>>),
     PySet(<<PyInt(1), PyInt(2)>>), PyDict(<<PyPair(PyInt(1), PyInt(2))>>),
     PyTuple(<<PyInt(1), PyInt(2)>>), PyList(<<PyTuple(<<>>)>>),
     PyFrozenSet(<<PyInt(1)>>), PyTag(TagCustom, PyInt(1))}
    \cup {PyBytes(b) : b \in ByteStrings(MaxLen)}

\* js_code = python_to_js_code(original_data)
\* return test_roundtrip_js(test_name, js_code, original_data, compare_fn)
TestRoundtrip ==
    /\ pc = "legacy"
    /\ IF PyToJsRaises(legacy_args.original_data)
       THEN /\ pc' = "raised"
            /\ UNCHANGED <<cur, js_encoded, python_decoded, python_encoded,
                           verify_args, trace, retval, outcome, procVars>>
       ELSE /\ CallStarts(Case(python_to_js_code(legacy_args.original_data),
                               legacy_args.original_data, legacy_args.compare_fn))
            /\ pc' = "S0"
    /\ UNCHANGED <<runVars, scanVars, fnVars, relVars, legacy_args>>

\* test_roundtrip hands test_roundtrip_js's value to its own caller.
LegacyReturn ==
    /\ pc = "ret"
    /\ registry = <<>>
    /\ pc' = "returned"
    /\ UNCHANGED <<runVars, scanVars, fnVars, relVars, procVars, cur, js_encoded, python_decoded, python_encoded,
                   verify_args, trace, retval, outcome, legacy_args>>

InitLegacy ==
    /\ registry = <<>>
    /\ idx = 1
    /\ all_results = <<>>
    /\ printed = <<>>
    /\ summary = "none"
    /\ pc = "legacy"
    /\ cur = NoCase
    /\ js_encoded = Unset
    /\ python_decoded = Unset
    /\ python_encoded = Unset
    /\ verify_args = NoArgs
    /\ trace = <<>>
    /\ retval = "none"
    /\ outcome = "none"
    /\ legacy_args \in [original_data : LegacyData, compare_fn : {"None", "compare_sets"}]
    /\ obj = Unset
    /\ issues = <<>>
    /\ exit_code = <<>>
    /\ enc_proc = NoEncode
    /\ dec_proc = NoDecode
    /\ call = NoCall
    /\ call_result = Raised
    /\ NoRelease

NextLegacy ==
    \/ TestRoundtrip
    \/ EncodeForeign
    \/ DecodeReference
    \/ CheckIntermediate
    \/ ReencodeReference
    \/ DecodeForeign
    \/ LegacyReturn

SpecLegacy == InitLegacy /\ [][NextLegacy]_vars

\* ------------------------------------------------ has_cbor_tags alone
\* Values that can be members of a set or keys of a dict.
RECURSIVE Hashable(_)
Hashable(v) ==
    /\ v.k \in {"py_int", "py_bytes", "py_tuple", "py_frozenset", "py_tag"}
    /\ \A i \in 1..Len(v.kids) : Hashable(v.kids[i])

\* The second element of the two-element containers below.
Seconds == {PyInt(1), PyTag(TagCustom, PyInt(1))}

\* The value trees nested at most d deep: a leaf, or a CBORTag, list,
\* tuple, set, frozenset or dict around shallower trees.
RECURSIVE PyVals(_)
PyVals(d) ==
    IF d = 0 THEN {PyInt(2), PyBytes(<<104>>)}
    ELSE LET P == PyVals(d - 1)
             H == {v \in P : Hashable(v)}
             kidss == {<<v>> : v \in P} \cup {<<v, w>> : v \in P, w \in Seconds}
             members == {<<v>> : v \in H}
                        \cup {<<v, w>> : v \in H \ Seconds, w \in Seconds}
         IN P \cup {PyTag(t, v) : t \in {TagUint8Array, TagCustom}, v \in P}
              \cup {PyList(kids) : kids \in kidss}
              \cup {PyTuple(kids) : kids \in kidss}
              \cup {PySet(kids) : kids \in members}
              \cup {PyFrozenSet(kids) : kids \in members}
              \cup {PyDict(<<PyPair(key, value)>>) : key \in H, value \in Seconds}
              \cup {PyDict(<<PyPair(key, value)>>) : key \in Seconds, value \in P}

\* issues = has_cbor_tags(obj)
Scan ==
    /\ pc = "scan"
    /\ issues' = has_cbor_tags(obj, Root)
    /\ pc' = "scanned"
    /\ UNCHANGED <<runVars, fnVars, relVars, procVars, obj, cur, js_encoded, python_decoded, python_encoded,
                   verify_args, trace, retval, outcome, legacy_args>>

InitScan ==
    /\ registry = <<>>
    /\ idx = 1
    /\ all_results = <<>>
    /\ printed = <<>>
    /\ summary = "none"
    /\ pc = "scan"
    /\ cur = NoCase
    /\ js_encoded = Unset
    /\ python_decoded = Unset
    /\ python_encoded = Unset
    /\ verify_args = NoArgs
    /\ trace = <<>>
    /\ retval = "none"
    /\ outcome = "none"
    /\ legacy_args = NoLegacyArgs
    /\ obj \in PyVals(MaxDepth)
    /\ issues = <<>>
    /\ exit_code = <<>>
    /\ enc_proc = NoEncode
    /\ dec_proc = NoDecode
    /\ call = NoCall
    /\ call_result = Raised
    /\ NoRelease

NextScan == Scan

SpecScan == InitScan /\ [][NextScan]_vars

\* ------------------------------------- release.py: update_version
Raise ==
    /\ pc' = "rel_raised"
    /\ UNCHANGED repo

\* if args.update not in ["major", "minor", "patch"]: raise RuntimeError
CheckUpdate ==
    /\ pc = "version"
    /\ IF rel_args.update \notin {"major", "minor", "patch"}
       THEN Raise
       ELSE pc' = "check_git_clean" /\ UNCHANGED repo
    /\ UNCHANGED <<runVars, scanVars, procVars, fnVars, rel_args, repo_before, cur,
                   js_encoded, python_decoded, python_encoded, verify_args, trace, retval,
                   outcome, legacy_args>>

\* check_git_clean()
check_git_clean ==
    /\ pc = "check_git_clean"
    /\ IF ~GitClean(repo)
       THEN Raise
       ELSE pc' = (IF rel_args.dev THEN "dev" ELSE "stable") /\ UNCHANGED repo
    /\ UNCHANGED <<runVars, scanVars, procVars, fnVars, rel_args, repo_before, cur,
                   js_encoded, python_decoded, python_encoded, verify_args, trace, retval,
                   outcome, legacy_args>>

\* The dev path up to git diff: npm version prerelease, or npm version
\* pre<update> --preid=dev; the command may fail (check=True).
BumpDev ==
    /\ pc = "dev"
    /\ \E npm_ok \in BOOLEAN :
          IF ~npm_ok THEN Raise
          ELSE /\ repo' = NpmVersionRun(repo,
                              IF repo.worktree.package_json.pre # <<>> THEN "prerelease"
                              ELSE IF rel_args.update = "major" THEN "premajor"
                              ELSE IF rel_args.update = "minor" THEN "preminor"
                              ELSE "prepatch")
               /\ pc' = "dev_bumped"
    /\ UNCHANGED <<runVars, scanVars, procVars, fnVars, rel_args, repo_before, cur,
                   js_encoded, python_decoded, python_encoded, verify_args, trace, retval,
                   outcome, legacy_args>>

\* The end of the dev path: the dry run restores the two files, otherwise
\* they are added and committed.
FinishDev ==
    /\ pc = "dev_bumped"
    /\ repo' = IF rel_args.dry_run THEN DryRunDev(repo)
               ELSE GitCommit(GitAdd(repo, DevFiles),
                              [kind |-> "DEV-RELEASE", version |-> repo.worktree.package_json])
    /\ pc' = "done"
    /\ UNCHANGED <<runVars, scanVars, procVars, fnVars, rel_args, repo_before, cur,
                   js_encoded, python_decoded, python_encoded, verify_args, trace, retval,
                   outcome, legacy_args>>

\* The stable path: check_unreleased_has_items(changelog_content)
CheckChangelog ==
    /\ pc = "stable"
    /\ IF check_unreleased_has_items(repo.worktree.changelog)
       THEN Raise
       ELSE pc' = "stable_checked" /\ UNCHANGED repo
    /\ UNCHANGED <<runVars, scanVars, procVars, fnVars, rel_args, repo_before, cur,
                   js_encoded, python_decoded, python_encoded, verify_args, trace, retval,
                   outcome, legacy_args>>

\* The stable path up to git add: npm version <update> (it may fail), the
\* new CHANGELOG.md is written, the three files are added to the index.
BumpStable ==
    /\ pc = "stable_checked"
    /\ \E npm_ok \in BOOLEAN :
          IF ~npm_ok THEN Raise
          ELSE LET bumped == NpmVersionRun(repo, rel_args.update)
                   new_version == bumped.worktree.package_json
                   written == [bumped EXCEPT !.worktree.changelog =
                                  ReplaceUnreleased(repo.worktree.changelog, new_version)]
               IN /\ repo' = GitAdd(written, StableFiles)
                  /\ pc' = "stable_staged"
    /\ UNCHANGED <<runVars, scanVars, procVars, fnVars, rel_args, repo_before, cur,
                   js_encoded, python_decoded, python_encoded, verify_args, trace, retval,
                   outcome, legacy_args>>

\* The end of the stable path: the dry run unstages and restores the three
\* files, otherwise the index is committed.
FinishStable ==
    /\ pc = "stable_staged"
    /\ repo' = IF rel_args.dry_run THEN DryRunStable(repo)
               ELSE GitCommit(repo, [kind |-> "RELEASE",
                                     version |-> repo.worktree.package_json])
    /\ pc' = "done"
    /\ UNCHANGED <<runVars, scanVars, procVars, fnVars, rel_args, repo_before, cur,
                   js_encoded, python_decoded, python_encoded, verify_args, trace, retval,
                   outcome, legacy_args>>

\* The versions modal-js/package.json can hold when the command starts.
Versions == {Version(1, 2, 3, <<>>), Version(1, 2, 4, <<0>>), Version(2, 0, 0, <<1>>)}

\* CHANGELOG.md with an item under Unreleased, with no item there, with the
\* item "- No unreleased changes", and with no Unreleased header.
Changelogs(v) ==
    {<<Text("unreleased"), Text("blank"), Text("item"), Text("blank"),
       Line("release", v), Text("item")>>,
     <<Text("unreleased"), Text("blank"), Text("no_changes"), Text("blank"),
       Line("release", v), Text("item")>>,
     <<Text("unreleased"), Text("no_changes_item"), Line("release", v), Text("item")>>,
     <<Line("release", v), Text("item")>>}

\* The repositories the command can be started in: one commit, and a
\* working tree that is clean or has an edited CHANGELOG.md.
Repos ==
    {Repo(IF dirty THEN [tree EXCEPT !.changelog = Append(@, Text("item"))] ELSE tree,
          tree, <<[message |-> [kind |-> "initial", version |-> tree.package_json],
                   tree |-> tree]>>) :
        tree \in UNION {{Tree(v, v, c) : c \in Changelogs(v)} : v \in Versions},
        dirty \in BOOLEAN}

InitRelease ==
    /\ registry = <<>>
    /\ idx = 1
    /\ all_results = <<>>
    /\ printed = <<>>
    /\ summary = "none"
    /\ pc = "version"
    /\ cur = NoCase
    /\ js_encoded = Unset
    /\ python_decoded = Unset
    /\ python_encoded = Unset
    /\ verify_args = NoArgs
    /\ trace = <<>>
    /\ retval = "none"
    /\ outcome = "none"
    /\ legacy_args = NoLegacyArgs
    /\ obj = Unset
    /\ issues = <<>>
    /\ exit_code = <<>>
    /\ enc_proc = NoEncode
    /\ dec_proc = NoDecode
    /\ call = NoCall
    /\ call_result = Raised
    /\ rel_args \in [update : {"major", "minor", "patch", "release"},
                     dev : BOOLEAN, dry_run : BOOLEAN]
    /\ repo \in Repos
    /\ repo_before = repo

NextRelease ==
    \/ CheckUpdate
    \/ check_git_clean
    \/ BumpDev
    \/ FinishDev
    \/ CheckChangelog
    \/ BumpStable
    \/ FinishStable

SpecRelease == InitRelease /\ [][NextRelease]_vars

\* ------------------------- comparison functions and tag_hook alone
\* The sequences that hold every element of S once.
Perms(S) ==
    {p \in [1..Cardinality(S) -> S] : \A i, j \in 1..Cardinality(S) : p[i] = p[j] => i = j}

\* The members of the collections compared.
Elements == {PyInt(1), PyInt(2), PyInt(3)}

\* Every enumeration order of every non-empty collection of Elements.
Orders == UNION {Perms(S) : S \in (SUBSET Elements) \ {{}}}

\* The readings (microseconds) and time zones (none, UTC, +00:15) of the
\* datetimes compared, and two dates.
Readings == {0, 999999, 1000000, 1000001, 900000000, 900999999, 901000000}
Tzinfos == {<<>>, <<0>>, <<900000000>>}
Dates == {PyDatetime(wall, tzinfo) : wall \in Readings, tzinfo \in Tzinfos}
         \cup {PyDate(1), PyDate(2)}

\* The tags handed to tag_hook: tag 64 and another tag, around any payload.
HookTags == {PyTag(t, v) : t \in {TagUint8Array, TagCustom}, v \in PyVals(1)}

\* The items handed to cbor_loads_with_tag64_support.
HookItems ==
    UNION {{CBstr(b), CTag(TagUint8Array, CBstr(b)),
            CArray(<<CTag(TagUint8Array, CBstr(b)), CUint(1)>>),
            CTag(TagSet, CArray(<<CTag(TagUint8Array, CBstr(b))>>))} : b \in ByteStrings(MaxLen)}
    \cup {CTag(TagUint8Array, CUint(1)), CTag(TagCustom, CUint(1)), CBad}

Call(fn, decoder, args) == [fn |-> fn, decoder |-> decoder, args |-> args]

Calls ==
    {Call("compare_sets", NoCall.decoder, <<PySet(p), PySet(q)>>) : p \in Orders, q \in Orders}
    \cup {Call("!=", NoCall.decoder, <<PyList(p), PyList(q)>>) : p \in Orders, q \in Orders}
    \cup {Call("compare_dates", NoCall.decoder, <<a, b>>) : a \in Dates, b \in Dates}
    \cup {Call("tag_hook", d, <<tag>>) : d \in Decoders, tag \in HookTags}
    \cup {Call("cbor_loads_with_tag64_support", d, <<data>>) : d \in Decoders, data \in HookItems}

Called(value) ==
    /\ call_result' = value
    /\ pc' = "called"
    /\ UNCHANGED <<runVars, scanVars, procVars, relVars, call, cur, js_encoded, python_decoded,
                   python_encoded, verify_args, trace, retval, outcome, legacy_args>>

\* compare_sets(original, result)
CompareSets ==
    /\ pc = "call"
    /\ call.fn = "compare_sets"
    /\ Called(Returned(PyBool(compare_sets(call.args[1], call.args[2]))))

\* python_decoded != python_intermediate
NotEqual ==
    /\ pc = "call"
    /\ call.fn = "!="
    /\ Called(Returned(PyBool(~PyEq(call.args[1], call.args[2]))))

\* compare_dates(original, result)
CompareDates ==
    /\ pc = "call"
    /\ call.fn = "compare_dates"
    /\ Called(Returned(PyBool(compare_dates(call.args[1], call.args[2]))))

\* tag_hook(decoder, tag)
TagHook ==
    /\ pc = "call"
    /\ call.fn = "tag_hook"
    /\ Called(tag_hook(call.decoder, call.args[1]))

\* cbor_loads_with_tag64_support(data)
LoadsWithTag64Support ==
    /\ pc = "call"
    /\ call.fn = "cbor_loads_with_tag64_support"
    /\ Called(cbor_loads_with_tag64_support(call.decoder, call.args[1]))

InitCall ==
    /\ registry = <<>>
    /\ idx = 1
    /\ all_results = <<>>
    /\ printed = <<>>
    /\ summary = "none"
    /\ pc = "call"
    /\ cur = NoCase
    /\ js_encoded = Unset
    /\ python_decoded = Unset
    /\ python_encoded = Unset
    /\ verify_args = NoArgs
    /\ trace = <<>>
    /\ retval = "none"
    /\ outcome = "none"
    /\ legacy_args = NoLegacyArgs
    /\ obj = Unset
    /\ issues = <<>>
    /\ exit_code = <<>>
    /\ enc_proc = NoEncode
    /\ dec_proc = NoDecode
    /\ call \in Calls
    /\ call_result = Raised
    /\ NoRelease

NextCall ==
    \/ CompareSets
    \/ NotEqual
    \/ CompareDates
    \/ TagHook
    \/ LoadsWithTag64Support

SpecCall == InitCall /\ [][NextCall]_vars

\* ============================================================ claims
Stages == <<"S0", "S1", "S2", "S3", "S4">>
StageNo(stage) == CHOOSE i \in 1..Len(Stages) : Stages[i] = stage
InCall == pc \in {"S0", "S1", "S2", "S3", "S4", "ret"}
LastOfTrace == trace[Len(trace)]

\* C1: the stages of a case execute in the order S0, S1, S2, S3, S4 (S2 may
\* be left out), each at most once, and no stage executes after a stage
\* that failed or raised.
C1_StageOrder ==
    /\ \A i \in 1..Len(trace) : \E j \in 1..Len(Stages) : trace[i].stage = Stages[j]
    /\ Len(trace) >= 1 => trace[1].stage = "S0"
    /\ \A i \in 1..(Len(trace) - 1) :
          /\ StageNo(trace[i + 1].stage) > StageNo(trace[i].stage)
          /\ \/ StageNo(trace[i + 1].stage) = StageNo(trace[i].stage) + 1
             \/ trace[i].stage = "S1" /\ trace[i + 1].stage = "S3"
          /\ trace[i].result = "ok"

\* A case ended by a failed intermediate check: S3 and S4 were not executed.
C1_Witness ==
    /\ pc = "ret"
    /\ Len(trace) = 3
    /\ trace[3] = Executed("S2", "fail")

\* C2: when the tag scan of V1 has a finding, the case ends with the
\* tag-leakage message and a False verdict, and S2, S3 and S4 are not
\* executed for it.
C2_TagLeakAborts ==
    (InCall /\ has_cbor_tags(python_decoded, Root) # <<>>) =>
        /\ pc = "ret"
        /\ retval = "False"
        /\ outcome = "cbor_tags"
        /\ \A i \in 1..Len(trace) : trace[i].stage \in {"S0", "S1"}

C2_Witness ==
    /\ pc = "ret"
    /\ python_decoded.k = "py_tag"
    /\ outcome = "cbor_tags"

\* C3: a case whose literal is a byte buffer b, encoded by the foreign
\* runtime as a plain byte string or under tag 64, decodes to the plain
\* bytes b with no Tagged value and does not fail on the reference side.
C3_BytesRoundTrip ==
    (/\ pc = "ret"
     /\ cur.js_input.k \in {"js_buffer", "js_uint8array"}
     /\ js_encoded = JsEncode(cur.js_input)) =>
        /\ python_decoded = PyBytes(cur.js_input.b)
        /\ has_cbor_tags(python_decoded, Root) = <<>>
        /\ outcome \notin {"cbor_tags", "intermediate_mismatch"}

\* C5: with a custom comparator the intermediate check is not executed, the
\* case never ends with the intermediate-mismatch message, and after a
\* successful S1 it goes on to S3.
C5_CustomSkipsS2 ==
    (InCall /\ cur.compare_fn # "None") =>
        /\ \A i \in 1..Len(trace) : trace[i].stage # "S2"
        /\ outcome # "intermediate_mismatch"
        /\ (Len(trace) >= 2 /\ trace[2].result = "ok" /\ pc # "S2") =>
              (pc = "S3" \/ \E i \in 1..Len(trace) : trace[i].stage = "S3")

\* A case with a custom comparator whose V1 differs from the declared
\* expected value stands at S3.
C5_Witness ==
    /\ pc = "S3"
    /\ cur.compare_fn # "None"
    /\ ~PyEq(python_decoded, cur.python_intermediate)

\* C6: a case whose custom comparator, applied to the expected and the
\* decoded value, returns false does not get a pass verdict.
C6_CustomPredicateDecides ==
    (/\ pc = "ret"
     /\ cur.compare_fn # "None"
     /\ python_decoded # Unset
     /\ ~ApplyCompare(cur.compare_fn, cur.python_intermediate, python_decoded)) =>
        retval # "True"

\* C7: the bytes B2 are the reference encoding of the decoded value V1, and
\* the foreign decode is handed B2 and the case's own foreign literal; the
\* declared expected value is used for neither.
C7_ReencodeDecoded ==
    (pc \in {"S4", "ret"}) =>
        /\ python_encoded # Unset => python_encoded = Cbor2Dumps(python_decoded)
        /\ verify_args # NoArgs =>
              verify_args = [cbor_data |-> Cbor2Dumps(python_decoded),
                             original_js_code |-> registry[idx].js_input]

\* S4 was executed for a case whose declared expected value encodes to
\* other bytes than V1.
C7_Witness ==
    /\ pc = "ret"
    /\ verify_args # NoArgs
    /\ Cbor2Dumps(cur.python_intermediate) # verify_args.cbor_data

TerminalOutcome ==
    IF trace = <<>> THEN "none"
    ELSE IF LastOfTrace.result = "raise" THEN "exception"
    ELSE IF LastOfTrace = Executed("S1", "fail") THEN "cbor_tags"
    ELSE IF LastOfTrace = Executed("S2", "fail") THEN "intermediate_mismatch"
    ELSE IF LastOfTrace = Executed("S4", "fail") THEN "js_mismatch"
    ELSE IF LastOfTrace = Executed("S4", "ok") THEN "successful"
    ELSE "none"

C9_ExceptionIsolated ==
    /\ pc # "raised"
    /\ Len(all_results) = idx - 1
    /\ (pc = "ret" /\ LastOfTrace.result = "raise") => retval = "False"
    /\ pc \in {"summary", "exit"} => Len(all_results) = Len(registry)
    /\ pc \notin {"exit", "traceback"} => ENABLED Next

\* A run ended whose first case raised and whose later case has a verdict.
C9_Witness ==
    /\ pc = "summary"
    /\ Len(all_results) >= 2
    /\ printed[1] = "exception"

\* C10: when python_to_js_code raises on the value handed to test_roundtrip,
\* the exception does not leave test_roundtrip: the call returns False.
C10_TranslationErrorIsVerdict ==
    PyToJsRaises(legacy_args.original_data) =>
        /\ pc # "raised"
        /\ pc = "returned" => retval = "False"

\* The Tagged values of a tree that lie in its lists, tuples, sets,
\* frozensets and dicts (keys and values), the payloads of Tagged values
\* aside.
RECURSIVE TaggedOutsidePayloads(_)
TaggedOutsidePayloads(v) ==
    IF v.k = "py_tag" THEN 1
    ELSE LET counts == [i \in 1..Len(v.kids) |-> TaggedOutsidePayloads(v.kids[i])]
             sum[i \in 0..Len(counts)] == IF i = 0 THEN 0 ELSE sum[i - 1] + counts[i]
         IN sum[Len(counts)]

\* Whether a tree holds a Tagged value anywhere.
RECURSIVE ContainsTagged(_)
ContainsTagged(v) ==
    \/ v.k = "py_tag"
    \/ \E i \in 1..Len(v.kids) : ContainsTagged(v.kids[i])

\* C4: has_cbor_tags returns one finding for every Tagged value inside the
\* sequences, mapping keys, mapping values and sets of the tree, and the
\* empty list exactly when the tree holds no Tagged value; a Tagged root
\* gives a non-empty list.
C4_ScanFindsEveryTagged ==
    pc = "scanned" =>
        /\ Len(issues) = TaggedOutsidePayloads(obj)
        /\ issues = <<>> <=> ~ContainsTagged(obj)
        /\ obj.k = "py_tag" => issues # <<>>

\* C11 as stated: the run reports success exactly when every registry case
\* passed, and the exit code of the process is nonzero exactly when at
\* least one registry case failed.
C11_ExitIffRegistryFailure ==
    /\ pc \in {"summary", "exit"} =>
          (summary = "True" <=> \A i \in 1..Len(all_results) : all_results[i])
    /\ exit_code # <<>> =>
          (exit_code[1] # 0 <=> \E i \in 1..Len(all_results) : ~all_results[i])

\* C11 as amended: the run reports success exactly when every registry case
\* passed; once the two preliminary tests of the script have passed, the
\* exit code is nonzero exactly when at least one registry case failed;
\* when a preliminary test raises, the process ends with exit code 1 and no
\* registry case has been evaluated.
C11_ExitCode ==
    /\ pc \in {"summary", "exit"} =>
          /\ Len(all_results) = Len(registry)
          /\ summary = "True" <=> \A i \in 1..Len(registry) : all_results[i]
    /\ exit_code # <<>> <=> pc \in {"exit", "traceback"}
    /\ pc = "exit" =>
          (exit_code[1] # 0 <=> \E i \in 1..Len(registry) : ~all_results[i])
    /\ pc = "traceback" =>
          /\ exit_code = <<1>>
          /\ all_results = <<>>
          /\ cur = NoCase

\* The script ended with exit code 1 after a run whose first case passed
\* and whose second case failed.
C11_Witness ==
    /\ pc = "exit"
    /\ exit_code = <<1>>
    /\ Len(all_results) = 2
    /\ all_results[1]
    /\ ~all_results[2]

\* C12: a case with no custom comparator whose decoded value V1 is NaN and
\* whose declared expected value is NaN does not end with the
\* intermediate-mismatch message.
C12_NaNEqualsNaN ==
    (/\ pc = "ret"
     /\ cur.compare_fn = "None"
     /\ python_decoded = PyNaN
     /\ cur.python_intermediate = PyNaN) =>
        outcome # "intermediate_mismatch"

\* The instant a datetime denotes, in microseconds: the reading less the
\* UTC offset; the reading of a naive datetime is a UTC reading.
Instant(d) == IF d.b = <<>> THEN d.n ELSE d.n - d.b[1]

CalledWith(fn) == pc = "called" /\ call.fn = fn

\* C13: for every pair of timestamps compare_dates returns true when their
\* absolute elapsed difference is less than one second and false when it
\* is one second or more.
C13_OneSecondTolerance ==
    (/\ CalledWith("compare_dates")
     /\ call.args[1].k = "py_datetime"
     /\ call.args[2].k = "py_datetime") =>
        call_result =
            Returned(PyBool(Abs(Instant(call.args[1]) - Instant(call.args[2])) < OneSecond))

\* C14: when one timestamp is naive and the other aware, the aware one is
\* compared by the instant it denotes in UTC, not by its local reading.
C14_AwareComparedByInstant ==
    (/\ CalledWith("compare_dates")
     /\ call.args[1].k = "py_datetime"
     /\ call.args[2].k = "py_datetime"
     /\ (call.args[1].b = <<>>) # (call.args[2].b = <<>>)) =>
        LET aware == IF call.args[1].b = <<>> THEN call.args[2] ELSE call.args[1]
            naive == IF call.args[1].b = <<>> THEN call.args[1] ELSE call.args[2]
        IN call_result =
              Returned(PyBool(Abs(naive.n - (aware.n - aware.b[1])) < OneSecond))

\* The members of a collection, as a set.
Members(v) == {v.kids[i] : i \in 1..Len(v.kids)}

\* C15: two sets with the same members are equal whatever their enumeration
\* orders; two sequences are equal only when they hold the same elements
\* in the same order.
C15_SetOrderFreeSequenceOrdered ==
    /\ CalledWith("compare_sets") =>
          call_result = Returned(PyBool(Members(call.args[1]) = Members(call.args[2])))
    /\ CalledWith("!=") =>
          call_result = Returned(PyBool(call.args[1].kids # call.args[2].kids))

\* {1, 2, 3} was compared with {3, 2, 1} and found equal.
C15_Witness ==
    /\ CalledWith("compare_sets")
    /\ call.args[1] = PySet(<<PyInt(1), PyInt(2), PyInt(3)>>)
    /\ call.args[2] = PySet(<<PyInt(3), PyInt(2), PyInt(1)>>)
    /\ call_result = Returned(PyBool(TRUE))

\* C19: tag_hook, handed tag 64 around a byte string b, returns exactly b,
\* and raises when the payload of tag 64 is no byte string; decoding with
\* the hook installed turns a byte string under tag 64 into plain bytes.
C19_Tag64ToBytes ==
    /\ (CalledWith("tag_hook") /\ call.args[1].n = TagUint8Array) =>
          IF call.args[1].kids[1].k = "py_bytes"
          THEN call_result = Returned(call.args[1].kids[1])
          ELSE call_result.raised
    /\ (/\ CalledWith("cbor_loads_with_tag64_support")
        /\ call.args[1].k = "c_tag"
        /\ call.args[1].n = TagUint8Array
        /\ call.args[1].kids[1].k = "c_bstr") =>
          call_result = Returned(PyBytes(call.args[1].kids[1].b))

\* tag_hook was handed tag 64 around an integer and raised.
C19_Witness ==
    /\ CalledWith("tag_hook")
    /\ call.args[1] = PyTag(TagUint8Array, PyInt(2))
    /\ call_result.raised

\* The words of an output, its white space aside.
Words(out) == SelectSeq(out, LAMBDA w : w \notin WhiteSpace)

\* C16: decode_and_verify_js_roundtrip returns true only when the foreign
\* process exited with status zero and its output token is values_match,
\* false only when it exited with status zero and the token is
\* values_differ, and raises when the status is nonzero or the token is
\* any other.
C16_VerifyTokenDecides ==
    (InCall /\ dec_proc # NoDecode) =>
        /\ pc = "ret"
        /\ LastOfTrace.stage = "S4"
        /\ LastOfTrace.result = "ok" =>
              dec_proc.rc = 0 /\ Words(dec_proc.out) = <<"values_match">>
        /\ LastOfTrace.result = "fail" =>
              dec_proc.rc = 0 /\ Words(dec_proc.out) = <<"values_differ">>
        /\ (\/ dec_proc.rc # 0
            \/ Words(dec_proc.out) \notin {<<"values_match">>, <<"values_differ">>}) =>
              LastOfTrace.result = "raise"

\* The foreign process printed values_match and exited with status 1: the
\* call raised.
C16_Witness ==
    /\ pc = "ret"
    /\ dec_proc.rc = 1
    /\ Words(dec_proc.out) = <<"values_match">>
    /\ LastOfTrace = Executed("S4", "raise")

\* What the diagnostic channel of a run can hold.
Diagnostics == {"", "JS decoded", NotUtf8}

\* C17: the content of the diagnostic channel never changes a verdict: had
\* the foreign process of a finished stage exited with the same status and
\* the same output bytes and any other diagnostic content, the stage would
\* have ended the same way and the case would have the same verdict.
C17_DiagnosticsIgnored ==
    /\ (InCall /\ enc_proc # NoEncode) =>
          \A diag \in Diagnostics :
              encode_js_code_with_cbor_x([enc_proc EXCEPT !.err = diag]).raised
                  <=> trace[1].result = "raise"
    /\ (InCall /\ dec_proc # NoDecode) =>
          \A diag \in Diagnostics :
              LET r == decode_and_verify_js_roundtrip([dec_proc EXCEPT !.err = diag])
              IN retval = IF r.raised THEN OnException("S4").retval
                          ELSE OnVerify(r.value).retval

\* The verdict of a case, from the case and the two runs of the foreign
\* process made for it.
VerdictOf(case, enc, dec) ==
    LET encoded == encode_js_code_with_cbor_x(enc)
        decoded == Cbor2Loads(encoded.value, FALSE)
        verified == decode_and_verify_js_roundtrip(dec)
    IN IF encoded.raised \/ LoadsRaises(encoded.value) THEN "False"
       ELSE IF has_cbor_tags(decoded, Root) # <<>> THEN "False"
       ELSE IF case.compare_fn = "None" /\ ~PyEq(decoded, case.python_intermediate)
       THEN "False"
       ELSE IF verified.raised THEN "False"
       ELSE verified.value

C21_OtherTagsUnchanged ==
    (CalledWith("tag_hook") /\ call.args[1].n # TagUint8Array) =>
        call_result = Returned(PyTag(call.args[1].n, call.args[1].kids[1]))

\* C22: test_roundtrip_js returns a pass verdict if and only if the foreign
\* encode exited with status zero, the reference decode succeeded and V1
\* holds no Tagged value, a custom comparator is supplied or V1 equals the
\* declared expected value, the reference re-encode succeeded, and the
\* foreign decode-and-compare exited with zero and answered values_match.
C22_PassIffAllStagesHold ==
    pc = "ret" =>
        (retval = "True" <=>
            /\ enc_proc.rc = 0
            /\ ~LoadsRaises(enc_proc.out)
            /\ ~ContainsTagged(Cbor2Loads(enc_proc.out, FALSE))
            /\ \/ cur.compare_fn # "None"
               \/ PyEq(Cbor2Loads(enc_proc.out, FALSE), cur.python_intermediate)
            /\ Cbor2Dumps(Cbor2Loads(enc_proc.out, FALSE)) # CBad
            /\ dec_proc.rc = 0
            /\ Words(dec_proc.out) = <<"values_match">>)

\* C23: has_cbor_tags does not descend into the payload of a Tagged value: a
\* Tagged value whose payload holds further Tagged values yields exactly
\* one finding, for the outer Tagged value at its own path, and the scan of
\* a tree never has more findings than the tree has Tagged values outside
\* payloads.
C23_PayloadNotScanned ==
    pc = "scanned" =>
        /\ obj.k = "py_tag" => issues = <<Issue(Root, obj)>>
        /\ Len(issues) <= TaggedOutsidePayloads(obj)
        /\ \A i \in 1..Len(obj.kids) :
              (obj.k = "py_list" /\ obj.kids[i].k = "py_tag") =>
                  \E j \in 1..Len(issues) :
                      issues[j] = Issue(<<Step("idx", i - 1, Unset)>>, obj.kids[i])

\* A Tagged value whose payload is a Tagged value was scanned: one finding.
C23_Witness ==
    /\ pc = "scanned"
    /\ obj.k = "py_tag"
    /\ ContainsTagged(obj.kids[1])
    /\ Len(issues) = 1

====
